---- MODULE Spec2Model ----
(***************************************************************************)
(* Body Marking Tool (deep.py): a Streamlit script that is run from top to *)
(* bottom once per user interaction.  st.session_state (dots, entries) and *)
(* the widget values (label, dot_size, x, y) survive from run to run; the  *)
(* module-level names (base_image, the rendered image, the CSV text) are   *)
(* recomputed by every run.  One action of this module is one interaction: *)
(* the whole script run it triggers, including the run started by          *)
(* st.rerun().                                                             *)
(***************************************************************************)
EXTENDS Integers, Sequences, FiniteSets, TLC

VARIABLES
    file,                   \* the image file load_body_image finds in the directory
    base_image,             \* module global base_image (line 25)
    label,                  \* st.text_input "Label for current dots"
    dot_size,               \* st.slider "Dot Size"
    x,                      \* st.slider "X coordinate"
    y,                      \* st.slider "Y coordinate"
    dots,                   \* st.session_state.dots
    entries,                \* st.session_state.entries
    now,                    \* the last reading of the clock, datetime.now(), in seconds
    runs,                   \* script runs of this session so far
    clicked,                \* the interaction that triggered the last run
    clicked_before,         \* history: the interaction that triggered the run before it
    messages,               \* st.error / st.warning / st.success / st.info of the last run
    crashed,                \* the last run ended in an uncaught exception
    image_with_current_dot, \* the live image of the last run (line 93)
    csv_out,                \* rows written by the Prepare CSV handler in the last run
    download,               \* bytes handed out by a Download Image button in the last run
    dots_before             \* history: dots at the start of the last run

vars == <<file, base_image, label, dot_size, x, y, dots, entries, now, runs, clicked,
          clicked_before, messages, crashed, image_with_current_dot, csv_out, download,
          dots_before>>

----------------------------------------------------------------------------
(* Bounds of the model *)

MaxRuns == 7

(* Python's None where an image is expected, a tuple that is falsy (no    *)
(* preview dot), no CSV prepared, and a name the run never bound.          *)
None == [none |-> TRUE]
NoDot == <<>>
NoCsv == <<>>
NoDownload == [none |-> TRUE]
Unbound == "unbound"

(* Program constants *)

BlankW == 500
BlankH == 800
DotSizeMin == 2
DotSizeMax == 30
DotSizeDefault == 6
XFallbackMax == 499
XFallbackDefault == 250
YFallbackMax == 799
YFallbackDefault == 400

(* Inputs the user can give *)

Labels == {"", "Scar"}
DotSizes == {DotSizeMin, DotSizeDefault, DotSizeDefault + 1, DotSizeMax}
Files == {[kind |-> "none", size |-> <<0, 0>>],
          [kind |-> "corrupt", size |-> <<0, 0>>],
          [kind |-> "ok", size |-> <<4, 3>>]}

----------------------------------------------------------------------------
(* Images.  An image is its size and the shapes drawn on it, in drawing    *)
(* order; a shape is the bounding box given to ImageDraw.ellipse and its   *)
(* fill.  The pixels a shape paints are those of the ellipse inscribed in  *)
(* the box that fall inside the image.                                     *)

NewImage(w, h) == [size |-> <<w, h>>, shapes |-> <<>>]

Width(img) == img.size[1]
Height(img) == img.size[2]

Ellipse(img, box, fill) ==
    [img EXCEPT !.shapes = Append(@, [box |-> box, fill |-> fill])]

Covers(shape, px, py) ==
    LET x0 == shape.box[1]
        y0 == shape.box[2]
        x1 == shape.box[3]
        y1 == shape.box[4]
        w  == x1 - x0
        h  == y1 - y0
        dx == 2 * px - x0 - x1
        dy == 2 * py - y0 - y1
    IN  /\ x0 <= px /\ px <= x1 /\ y0 <= py /\ py <= y1
        /\ dx * dx * h * h + dy * dy * w * w <= w * w * h * h

Paints(img, i, px, py) ==
    /\ 0 <= px /\ px < Width(img)
    /\ 0 <= py /\ py < Height(img)
    /\ Covers(img.shapes[i], px, py)

SavePng(img) == [format |-> "PNG", image |-> img]

Strftime(t) == [seconds |-> t]

RECURSIVE Digits(_)
Digits(n) == IF n < 10 THEN <<n>> ELSE Append(Digits(n \div 10), n % 10)

Str(n) == Digits(n)

----------------------------------------------------------------------------
(* load_body_image, lines 13-23: the value returned and the message shown *)

LoadReturn(f) ==
    CASE f.kind = "ok"      -> NewImage(f.size[1], f.size[2])
      [] f.kind = "corrupt" -> None
      [] f.kind = "none"    -> NewImage(BlankW, BlankH)

LoadMessages(f) ==
    CASE f.kind = "ok"      -> {}
      [] f.kind = "corrupt" -> {"Error loading image"}
      [] f.kind = "none"    -> {"No body outline image found. Using a blank placeholder."}

load_body_image(f) == [image |-> LoadReturn(f), messages |-> LoadMessages(f)]

(* get_image_with_dots, lines 34-43 *)

Radius_Full(size) == size

Radius(size) == size \div 2

DotBox(p, r) == <<p[1] - r, p[2] - r, p[1] + r, p[2] + r>>

RECURSIVE DrawDots(_, _, _)
DrawDots(img, ds, r) ==
    IF ds = <<>> THEN img
    ELSE DrawDots(Ellipse(img, DotBox(Head(ds), r), "red"), Tail(ds), r)

get_image_with_dots(base, ds, current_dot, size) ==
    LET r   == Radius(size)
        img == DrawDots(base, ds, r)
    IN  IF current_dot # NoDot
        THEN Ellipse(img, DotBox(current_dot, r), "blue")
        ELSE img

(* Slider ranges and defaults, lines 89-90; the user leaves a slider at   *)
(* its default or drags it to its upper end                                *)

XMax_PastEdge(base) == IF Width(base) > 0 THEN Width(base) ELSE XFallbackMax + 1

XMax(base) == IF Width(base) > 0 THEN Width(base) - 1 ELSE XFallbackMax
YMax(base) == IF Height(base) > 0 THEN Height(base) - 1 ELSE YFallbackMax
XDefault(base) == IF Width(base) > 0 THEN Width(base) \div 2 ELSE XFallbackDefault
YDefault(base) == IF Height(base) > 0 THEN Height(base) \div 2 ELSE YFallbackDefault

XChoices(base) == {XDefault(base), XMax(base)}
YChoices(base) == {YDefault(base), YMax(base)}

----------------------------------------------------------------------------
(* The handlers, as functions of the session state *)

(* Save Entry, lines 51-66 *)
SaveAccepted_Either(lbl, ds) == lbl # "" \/ ds # <<>>

SaveAccepted(lbl, ds) == lbl # "" /\ ds # <<>>

NewEntry(base, lbl, ds, size, t) ==
    [date  |-> Strftime(t),
     label |-> lbl,
     img_bytes |-> SavePng(get_image_with_dots(base, ds, NoDot, size)),
     size  |-> size]

SaveEntries_AtFront(es, base, lbl, ds, size, t) ==
    <<NewEntry(base, lbl, ds, size, t)>> \o es

SaveEntries_OverLast(es, base, lbl, ds, size, t) ==
    IF es = <<>> THEN <<NewEntry(base, lbl, ds, size, t)>>
    ELSE [es EXCEPT ![Len(es)] = NewEntry(base, lbl, ds, size, t)]

SaveEntries(es, base, lbl, ds, size, t) ==
    Append(es, NewEntry(base, lbl, ds, size, t))

SaveDots(ds) == <<>>

(* Undo Last Dot, lines 68-70 *)
UndoLastDot_First(ds) == IF ds # <<>> THEN Tail(ds) ELSE ds

UndoLastDot(ds) == IF ds # <<>> THEN SubSeq(ds, 1, Len(ds) - 1) ELSE ds

(* Clear All Dots, lines 72-73 *)
ClearAllDots(ds) == <<>>

(* Add Dot, lines 98-100 *)
AddDot(ds, cx, cy) == Append(ds, <<cx, cy>>)

(* Delete, lines 127-129: list.pop(i), i counted from 0 *)
Pop_Last(es, i) == SubSeq(es, 1, Len(es) - 1)

Pop(es, i) == SubSeq(es, 1, i) \o SubSeq(es, i + 2, Len(es))

(* Prepare CSV, lines 134-139 *)
CsvHeader == <<"Date", "Label", "Dot Size">>

CsvRow_Radius(e) == <<e.date, e.label, Str(e.size \div 2)>>

CsvRow(e) == <<e.date, e.label, Str(e.size)>>

PrepareCsv(es) == <<CsvHeader>> \o [i \in 1..Len(es) |-> CsvRow(es[i])]

----------------------------------------------------------------------------
(* One run of the script, top to bottom.  lbl, size, cx, cy are the widget *)
(* values of this run; D and E are session_state.dots and .entries as the  *)
(* handlers of this run leave them; msgs are the handlers' messages;       *)
(* raised says that a handler raised; csv that Prepare CSV was clicked.    *)
(* A run with base_image = None raises at line 81 (None has no width), so  *)
(* nothing below the sidebar is executed.                                  *)

Stops(base, raised) == raised \/ base = None

RunMessages(base, raised, E, msgs) ==
    LoadMessages(file) \cup msgs
      \cup (IF ~Stops(base, raised) /\ E = <<>> THEN {"No entries saved yet."} ELSE {})

Run(ev, t, lbl, size, cx, cy, D, E, msgs, raised, csv) ==
    LET base == load_body_image(file).image IN
    /\ runs < MaxRuns
    /\ runs' = runs + 1
    /\ file' = file
    /\ base_image' = base
    /\ now' = t
    /\ clicked' = ev
    /\ clicked_before' = clicked
    /\ download' = IF ev[1] = "download" /\ ~Stops(base, raised)
                   THEN E[ev[2] + 1].img_bytes ELSE NoDownload
    /\ label' = lbl
    /\ dot_size' = size
    /\ x' = cx
    /\ y' = cy
    /\ dots' = D
    /\ entries' = E
    /\ dots_before' = dots
    /\ crashed' = Stops(base, raised)
    /\ messages' = RunMessages(base, raised, E, msgs)
    /\ image_with_current_dot' =
          IF Stops(base, raised) THEN None
          ELSE get_image_with_dots(base, D, <<cx, cy>>, size)
    /\ csv_out' = IF csv /\ ~Stops(base, raised) THEN PrepareCsv(E) ELSE NoCsv

(* datetime.now() is read by the Save Entry handler only; since the last  *)
(* reading the clock has stayed within the same second or moved on.        *)
ClockReadings == {now, now + 1}

(* The main area (sliders, Add Dot, entries, Prepare CSV) is on the page   *)
(* only if the last run got past line 81.                                  *)
MainAreaShown == ~crashed

Init ==
    /\ file \in Files
    /\ base_image = load_body_image(file).image
    /\ now = 0
    /\ runs = 0
    /\ clicked = <<"open">>
    /\ clicked_before = <<"open">>
    /\ download = NoDownload
    /\ label = ""
    /\ dot_size = DotSizeDefault
    /\ x = IF base_image = None THEN Unbound ELSE XDefault(base_image)
    /\ y = IF base_image = None THEN Unbound ELSE YDefault(base_image)
    /\ dots = <<>>
    /\ entries = <<>>
    /\ dots_before = <<>>
    /\ crashed = Stops(base_image, FALSE)
    /\ messages = LoadMessages(file)
          \cup (IF base_image # None THEN {"No entries saved yet."} ELSE {})
    /\ image_with_current_dot =
          IF base_image = None THEN None
          ELSE get_image_with_dots(base_image, <<>>, <<x, y>>, dot_size)
    /\ csv_out = NoCsv

(* The user edits a widget: a run in which no button is pressed *)

SetLabel ==
    \E lbl \in Labels \ {label} :
        Run(<<"label">>, now, lbl, dot_size, x, y, dots, entries, {}, FALSE, FALSE)

SetDotSize ==
    \E size \in DotSizes \ {dot_size} :
        Run(<<"dot_size">>, now, label, size, x, y, dots, entries, {}, FALSE, FALSE)

SetX_KeepsPreview ==
    /\ MainAreaShown
    /\ \E cx \in XChoices(base_image) \ {x} :
        Run(<<"x">>, now, label, dot_size, cx, y, AddDot(dots, cx, y), entries, {}, FALSE, FALSE)

SetX ==
    /\ MainAreaShown
    /\ \E cx \in XChoices(base_image) \ {x} :
        Run(<<"x">>, now, label, dot_size, cx, y, dots, entries, {}, FALSE, FALSE)

SetY ==
    /\ MainAreaShown
    /\ \E cy \in YChoices(base_image) \ {y} :
        Run(<<"y">>, now, label, dot_size, x, cy, dots, entries, {}, FALSE, FALSE)

(* Save Entry, lines 51-66.  An accepted save renders the entry image from *)
(* base_image (line 56 -> line 35), which raises when base_image is None.  *)
ClickSave ==
    \E t \in (IF SaveAccepted(label, dots) THEN ClockReadings ELSE {now}) :
        LET base == load_body_image(file).image IN
        IF SaveAccepted(label, dots)
        THEN IF base = None
             THEN Run(<<"save">>, t, label, dot_size, x, y, dots, entries, {}, TRUE, FALSE)
             ELSE Run(<<"save">>, t, label, dot_size, x, y, SaveDots(dots),
                      SaveEntries(entries, base, label, dots, dot_size, t),
                      {"Entry saved."}, FALSE, FALSE)
        ELSE Run(<<"save">>, t, label, dot_size, x, y, dots, entries,
                 {"Please add at least one dot and a label."}, FALSE, FALSE)

(* Undo Last Dot, lines 68-70 *)
ClickUndo ==
    Run(<<"undo">>, now, label, dot_size, x, y, UndoLastDot(dots), entries, {}, FALSE, FALSE)

(* Clear All Dots, lines 72-73 *)
ClickClear ==
    Run(<<"clear">>, now, label, dot_size, x, y, ClearAllDots(dots), entries, {}, FALSE, FALSE)

(* Add Dot, lines 98-100: append, then st.rerun() runs the script again *)
ClickAddDot ==
    /\ MainAreaShown
    /\ Run(<<"add">>, now, label, dot_size, x, y, AddDot(dots, x, y), entries, {}, FALSE, FALSE)

(* Delete of entry i (key delete_i), lines 127-129, then st.rerun() *)
ClickDelete ==
    /\ MainAreaShown
    /\ \E i \in 0..(Len(entries) - 1) :
        Run(<<"delete", i>>, now, label, dot_size, x, y, dots, Pop(entries, i), {}, FALSE, FALSE)

(* Download Image of entry i (key img_download_i), lines 119-125: the     *)
(* stored bytes are handed out, no handler runs                            *)
ClickDownload ==
    /\ MainAreaShown
    /\ \E i \in 0..(Len(entries) - 1) :
        Run(<<"download", i>>, now, label, dot_size, x, y, dots, entries, {}, FALSE, FALSE)

(* Prepare CSV, lines 134-145 *)
ClickPrepareCsv ==
    /\ MainAreaShown
    /\ Run(<<"csv">>, now, label, dot_size, x, y, dots, entries, {}, FALSE, TRUE)

Next ==
    \/ SetLabel
    \/ SetDotSize
    \/ SetX
    \/ SetY
    \/ ClickSave
    \/ ClickUndo
    \/ ClickClear
    \/ ClickAddDot
    \/ ClickDelete
    \/ ClickDownload
    \/ ClickPrepareCsv

Spec == Init /\ [][Next]_vars

----------------------------------------------------------------------------
(* Properties *)

SaveWarning == "Please add at least one dot and a label."

Box(img, i) == img.shapes[i].box

(* The point a dot box was drawn around *)
Centre(box) == <<(box[1] + box[3]) \div 2, (box[2] + box[4]) \div 2>>

InImage(img, q) ==
    /\ 0 <= q[1] /\ q[1] < Width(img)
    /\ 0 <= q[2] /\ q[2] < Height(img)

Directions == {<<1, 0>>, <<-1, 0>>, <<0, 1>>, <<0, -1>>}

Step(p, d, k) == <<p[1] + k * d[1], p[2] + k * d[2]>>

(* Shape i of img is painted k pixels far from p in each of the four       *)
(* directions, wherever that is inside the image, and no farther           *)
ReachesExactly(img, i, p, k) ==
    \A d \in Directions :
        /\ Paints(img, i, Step(p, d, k)[1], Step(p, d, k)[2]) <=> InImage(img, Step(p, d, k))
        /\ ~Paints(img, i, Step(p, d, k + 1)[1], Step(p, d, k + 1)[2])

(* es without its element at position i, positions counted from 0 *)
Without(es, i) ==
    [j \in 1..(Len(es) - 1) |-> IF j <= i THEN es[j] ELSE es[j + 1]]

RECURSIVE ParseInt(_)
ParseInt(digits) ==
    IF digits = <<>> THEN 0
    ELSE 10 * ParseInt(SubSeq(digits, 1, Len(digits) - 1)) + digits[Len(digits)]

(* C1: a Save Entry run with an empty label or no pending dot changes     *)
(* neither the entries nor the pending dots.                               *)
C1_RejectedSaveChangesNothing ==
    [][(clicked' = <<"save">> /\ (label = "" \/ dots = <<>>))
         => (entries' = entries /\ dots' = dots)]_vars

C1_Witness ==
    /\ clicked = <<"save">>
    /\ SaveWarning \in messages
    /\ entries # <<>>
    /\ dots # <<>>

(* C2: a Save Entry run with a label and at least one pending dot appends *)
(* exactly one entry, with that label and dot size, after the entries that *)
(* were there, which stay in place, and empties the pending dots.          *)
C2_AcceptedSaveAppendsOne ==
    [][(clicked' = <<"save">> /\ label # "" /\ dots # <<>>)
         => /\ Len(entries') = Len(entries) + 1
            /\ SubSeq(entries', 1, Len(entries)) = entries
            /\ entries'[Len(entries')].label = label
            /\ entries'[Len(entries')].size = dot_size
            /\ dots' = <<>>]_vars

C2_Witness ==
    /\ clicked = <<"save">>
    /\ "Entry saved." \in messages
    /\ Len(entries) = 2
    /\ entries[1] # entries[2]
    /\ dots = <<>>

C4_UndoOfAdd ==
    [][/\ (clicked = <<"add">> /\ clicked' = <<"undo">>) => dots' = dots_before
       /\ (clicked' = <<"undo">> /\ dots = <<>>) => dots' = <<>>]_vars

C4_Witness ==
    /\ clicked = <<"undo">>
    /\ clicked_before = <<"add">>
    /\ Len(dots_before) = 2
    /\ dots_before[1] # dots_before[2]
    /\ dots = <<dots_before[1]>>

(* C5: with a body image file that cannot be decoded the run goes on with  *)
(* a blank canvas as base image: the line-81 sizing, the sliders and the   *)
(* live render all get an image.                                           *)
C5_UndecodableFallsBack ==
    file.kind = "corrupt"
      => /\ "Error loading image" \in messages
         /\ base_image = NewImage(BlankW, BlankH)
         /\ ~crashed
         /\ image_with_current_dot # None

(* C6 as stated: the circle of a pending dot reaches dot_size pixels from  *)
(* the dot in each direction.                                              *)
C6_RadiusIsDotSize ==
    image_with_current_dot # None
      => \A i \in 1..Len(dots) :
            ReachesExactly(image_with_current_dot, i, dots[i], dot_size)

(* C6 amended: the dot size is the circle's diameter: the circle of a      *)
(* pending dot is red and reaches dot_size \div 2 pixels from the dot in   *)
(* each direction, clipped only by the image; likewise in every saved      *)
(* entry image, with the entry's dot size.                                 *)
C6_RadiusIsHalfDotSize ==
    /\ image_with_current_dot # None
         => \A i \in 1..Len(dots) :
               /\ image_with_current_dot.shapes[i].fill = "red"
               /\ ReachesExactly(image_with_current_dot, i, dots[i], dot_size \div 2)
    /\ \A n \in 1..Len(entries) :
         LET img == entries[n].img_bytes.image IN
         \A i \in 1..Len(img.shapes) :
            ReachesExactly(img, i, Centre(Box(img, i)), entries[n].size \div 2)

C6_Witness ==
    /\ image_with_current_dot # None
    /\ dot_size = DotSizeDefault + 1
    /\ Len(dots) = 2
    /\ \A d \in Directions : InImage(image_with_current_dot, Step(dots[1], d, dot_size \div 2))
    /\ \E d \in Directions : ~InImage(image_with_current_dot, Step(dots[2], d, dot_size \div 2))
    /\ entries # <<>>

(* C7: a run changes the entries only by appending one entry (Save Entry)  *)
(* or by removing one (Delete); every other entry stays as it was saved.   *)
(* The image of a new entry shows the pending dots of that moment, one red *)
(* circle per dot in order, on the base image, and no preview dot.         *)
SnapshotOf(img, base, ds) ==
    /\ img.size = base.size
    /\ Len(img.shapes) = Len(ds)
    /\ \A i \in 1..Len(ds) :
          /\ img.shapes[i].fill = "red"
          /\ Centre(Box(img, i)) = ds[i]

C7_EntriesImmutable ==
    [][\/ entries' = entries
       \/ /\ clicked' = <<"save">>
          /\ SubSeq(entries', 1, Len(entries)) = entries
          /\ Len(entries') = Len(entries) + 1
          /\ entries'[Len(entries')].img_bytes.format = "PNG"
          /\ SnapshotOf(entries'[Len(entries')].img_bytes.image, base_image, dots)
          /\ entries'[Len(entries')].date \in {Strftime(now), Strftime(now + 1)}
       \/ \E i \in 0..(Len(entries) - 1) :
             /\ clicked' = <<"delete", i>>
             /\ entries' = Without(entries, i)]_vars

C7_Witness ==
    /\ Len(entries) = 2
    /\ clicked = <<"dot_size">>
    /\ clicked_before = <<"clear">>
    /\ \A n \in 1..2 : entries[n].size # dot_size
    /\ Len(entries[1].img_bytes.image.shapes) = 1

(* C8: the CSV has the header Date, Label, Dot Size, then one row per      *)
(* entry of the list, in list order, with the entry's timestamp, label and *)
(* dot size and nothing else.                                              *)
C8_CsvRows ==
    clicked = <<"csv">>
      => /\ Len(csv_out) = Len(entries) + 1
         /\ csv_out[1] = <<"Date", "Label", "Dot Size">>
         /\ \A n \in 1..Len(entries) :
               /\ Len(csv_out[n + 1]) = 3
               /\ csv_out[n + 1][1] = entries[n].date
               /\ csv_out[n + 1][2] = entries[n].label
               /\ ParseInt(csv_out[n + 1][3]) = entries[n].size

C8_Witness ==
    /\ clicked = <<"csv">>
    /\ clicked_before = <<"delete", 0>>
    /\ Len(entries) = 1
    /\ Len(csv_out) = 2

(* C9: every pending dot is a pair of integers inside the base image; no   *)
(* dot is pending when there is no base image.                             *)
C9_DotsInsideImage ==
    /\ base_image = None => dots = <<>>
    /\ base_image # None
         => \A i \in 1..Len(dots) :
               /\ Len(dots[i]) = 2
               /\ dots[i][1] \in 0..(Width(base_image) - 1)
               /\ dots[i][2] \in 0..(Height(base_image) - 1)

C9_Witness ==
    /\ base_image # None
    /\ Len(dots) = 2
    /\ dots[2] = <<Width(base_image) - 1, Height(base_image) - 1>>

(* C10: Add Dot, Undo Last Dot and Clear All Dots leave the entries alone; *)
(* Delete, Prepare CSV and Download Image leave the pending dots alone; a  *)
(* run that only redraws the live image changes neither, and the live      *)
(* image shows the pending dots plus one blue preview circle at (x, y)     *)
(* that is no pending dot.                                                 *)
C10_Frames ==
    [][/\ clicked'[1] \in {"add", "undo", "clear"} => entries' = entries
       /\ clicked'[1] \in {"delete", "csv", "download"} => dots' = dots
       /\ clicked'[1] \in {"label", "dot_size", "x", "y"}
            => (dots' = dots /\ entries' = entries)
       /\ image_with_current_dot' # None
            => LET img == image_with_current_dot' IN
               /\ Len(img.shapes) = Len(dots') + 1
               /\ img.shapes[Len(img.shapes)].fill = "blue"
               /\ Centre(Box(img, Len(img.shapes))) = <<x', y'>>]_vars

C10_Witness ==
    /\ clicked = <<"x">>
    /\ clicked_before = <<"download", 0>>
    /\ dots # <<>>
    /\ entries # <<>>
    /\ \A i \in 1..Len(dots) : dots[i] # <<x, y>>

====
